---- MODULE Spec2Model ----
(* Model of .github/scripts/ai-powered-fix.py: the scan for placeholder    *)
(* code (find_violations), the context extraction (analyze_code_context,   *)
(* extract_function_name), the fix loop of main() and the two reports.     *)
(*                                                                         *)
(* Text is modelled as sequences.  A path or a file name is a sequence of  *)
(* characters, so that `'build' in root` and `file.endswith('.cpp')` are   *)
(* the substring and suffix tests the code performs.  A source line is a   *)
(* sequence of tokens (words, punctuation, whitespace), as returned by     *)
(* readlines(): it ends with the newline token.  A regular expression is   *)
(* a sequence of items matched token by token.                             *)
EXTENDS Integers, Sequences, FiniteSets, TLC

VARIABLES
    env,             \* os.environ.get('ANTHROPIC_API_KEY'): None, "" or a key
    disk,            \* the tree under '.': [tree, data]
    pc,              \* position of main()
    exitCode,        \* process exit status, -1 while running
    walkQueue,       \* (root, dirs, files) triples os.walk has yet to yield
    scanViolations,  \* find_violations: local list `violations`
    openLog,         \* paths opened by find_violations, in order
    violations,      \* main: local `violations`
    self_violations, \* AICodeFixer.violations
    self_fixes,      \* AICodeFixer.fixes
    idx,             \* main: 1-based position in violations[:max_fixes]
    context,         \* main: local `context`
    fix,             \* main: local `fix`
    aiCalls,         \* contexts passed to client.messages.create, in order
    outcomes,        \* per call of generate_fix_with_ai: TRUE iff it returned
    outputs,         \* content of ai_fix_report.json / pr_description.md
    writeLog         \* names of the files opened for writing, in order

vars == <<env, disk, pc, exitCode, walkQueue, scanViolations, openLog,
          violations, self_violations, self_fixes, idx, context, fix,
          aiCalls, outcomes, outputs, writeLog>>

Min(a, b) == IF a < b THEN a ELSE b
Max(a, b) == IF a > b THEN a ELSE b

None == "None"

(***************************************************************************)
(* Strings                                                                 *)
(***************************************************************************)

\* `s in t` for str
IsSubstring(s, t) ==
    \E i \in 0..(Len(t) - Len(s)) : SubSeq(t, i + 1, i + Len(s)) = s

\* t.endswith(s)
EndsWith(t, s) ==
    /\ Len(s) <= Len(t)
    /\ SubSeq(t, Len(t) - Len(s) + 1, Len(t)) = s

\* os.path.join(root, name)
PathJoin(root, name) == root \o <<"/">> \o name

RECURSIVE Join(_)
\* ''.join(lines)
Join(ls) == IF ls = <<>> THEN <<>> ELSE Head(ls) \o Join(Tail(ls))

Whitespace == {" ", "\t", "\n"}

RECURSIVE LStrip(_)
LStrip(s) ==
    IF s # <<>> /\ Head(s) \in Whitespace THEN LStrip(Tail(s)) ELSE s

RECURSIVE RStrip(_)
RStrip(s) ==
    IF s # <<>> /\ s[Len(s)] \in Whitespace
    THEN RStrip(SubSeq(s, 1, Len(s) - 1)) ELSE s

\* str.strip()
Strip(s) == LStrip(RStrip(s))

RECURSIVE SplitNL(_, _)
\* content.split('\n'), cur is the piece being accumulated
SplitNL(s, cur) ==
    IF s = <<>> THEN <<cur>>
    ELSE IF Head(s) = "\n" THEN <<cur>> \o SplitNL(Tail(s), <<>>)
    ELSE SplitNL(Tail(s), Append(cur, Head(s)))

(***************************************************************************)
(* Regular expressions over tokens                                         *)
(***************************************************************************)

Punctuation == {"//", ":", ";", "::", "(", ")", ".", "\"", "=", "{", "}"}

\* \w+ : one word token
IsWord(t) == t \notin Whitespace /\ t \notin Punctuation

Lit(t)  == [k |-> "lit", t |-> {t}]       \* the literal text t
Alt(S)  == [k |-> "lit", t |-> S]         \* (a|b|c)
WsPlus  == [k |-> "ws+", t |-> {}]        \* \s+
WsStar  == [k |-> "ws*", t |-> {}]        \* \s*
Word    == [k |-> "word", t |-> {}]       \* \w+
AnyStar == [k |-> "any*", t |-> {}]       \* .*

RECURSIVE MatchFrom(_, _, _, _)
\* items j.. of pattern p match a prefix of line[i..]
MatchFrom(p, j, line, i) ==
    IF j > Len(p) THEN TRUE
    ELSE LET it == p[j]
             has == i <= Len(line)
         IN CASE it.k = "lit" ->
                   has /\ line[i] \in it.t /\ MatchFrom(p, j + 1, line, i + 1)
              [] it.k = "word" ->
                   has /\ IsWord(line[i]) /\ MatchFrom(p, j + 1, line, i + 1)
              [] it.k = "ws+" ->
                   has /\ line[i] \in Whitespace
                       /\ (MatchFrom(p, j + 1, line, i + 1)
                           \/ MatchFrom(p, j, line, i + 1))
              [] it.k = "ws*" ->
                   \/ MatchFrom(p, j + 1, line, i)
                   \/ has /\ line[i] \in Whitespace
                          /\ MatchFrom(p, j, line, i + 1)
              [] it.k = "any*" ->
                   \/ MatchFrom(p, j + 1, line, i)
                   \/ has /\ line[i] # "\n" /\ MatchFrom(p, j, line, i + 1)

\* re.search(p, line)
ReSearch(p, line) == \E i \in 1..(Len(line) + 1) : MatchFrom(p, 1, line, i)

\* re.match(p, line); every pattern given to it starts with ^
ReMatch(p, line) == MatchFrom(p, 1, line, 1)

\* find_violations: patterns
patterns == <<
    [pattern |-> <<Lit("return"), WsPlus, Lit("0.5f"), WsStar, Lit(";"),
                   AnyStar, Lit("placeholder")>>,
     vtype |-> "hardcoded_placeholder"],
    [pattern |-> <<Lit("throw"), WsPlus, AnyStar, Lit("Error"), AnyStar,
                   Lit("not"), Lit(" "), Lit("implemented")>>,
     vtype |-> "not_implemented_error"],
    [pattern |-> <<Lit("return"), WsPlus, Lit("\""),
                   Alt({"Contemporary", "Neutral", "2010s"}), Lit("\"")>>,
     vtype |-> "hardcoded_string"],
    [pattern |-> <<Lit("//"), WsStar, Alt({"TODO", "FIXME", "HACK"}),
                   Lit(":")>>,
     vtype |-> "todo_comment"],
    [pattern |-> <<Alt({"simplified", "Simplified", "SIMPLIFIED"})>>,
     vtype |-> "simplified_implementation"],
    [pattern |-> <<Lit("Math"), Lit("."), Lit("random"), Lit("("), Lit(")")>>,
     vtype |-> "random_data_generation"] >>

\* extract_function_name: the three declaration patterns
MethodDecl == <<WsStar, Word, WsPlus, Word, Lit("::"), Word, WsStar, Lit("(")>>
FunctionDecl == <<WsStar, Lit("function"), WsPlus, Word, WsStar, Lit("(")>>
AsyncFunctionDecl ==
    <<WsStar, Lit("async"), WsPlus, Lit("function"), WsPlus, Word, WsStar,
      Lit("(")>>

IsDeclaration(line) ==
    \/ ReMatch(MethodDecl, line)
    \/ ReMatch(FunctionDecl, line)
    \/ ReMatch(AsyncFunctionDecl, line)

(***************************************************************************)
(* The tree under '.'                                                      *)
(*   disk.tree[dir]  = [dirs, files]: the listing of dir, in scandir order *)
(*   disk.data[path] = [readable, lines]: lines is what readlines() gives  *)
(***************************************************************************)

Dot == <<".">>

RECURSIVE OsWalk(_, _)
RECURSIVE WalkSubdirs(_, _, _)
\* os.walk(top), top-down: a directory, then each of its subdirectories
OsWalk(d, top) ==
    <<[root |-> top, dirs |-> d.tree[top].dirs, files |-> d.tree[top].files]>>
    \o WalkSubdirs(d, top, d.tree[top].dirs)
WalkSubdirs(d, top, ds) ==
    IF ds = <<>> THEN <<>>
    ELSE OsWalk(d, PathJoin(top, Head(ds))) \o WalkSubdirs(d, top, Tail(ds))

RECURSIVE BaseName(_)
BaseName(path) ==
    IF \A i \in 1..Len(path) : path[i] # "/" THEN path
    ELSE BaseName(Tail(path))

\* variant: only the name of the directory itself is tested
IsSkippedByName(root) ==
    \/ IsSubstring(<<"n","o","d","e","_","m","o","d","u","l","e","s">>,
                   BaseName(root))
    \/ IsSubstring(<<".","g","i","t">>, BaseName(root))
    \/ IsSubstring(<<"b","u","i","l","d">>, BaseName(root))

\* 'node_modules' in root or '.git' in root or 'build' in root
IsSkipped(root) ==
    \/ IsSubstring(<<"n","o","d","e","_","m","o","d","u","l","e","s">>, root)
    \/ IsSubstring(<<".","g","i","t">>, root)
    \/ IsSubstring(<<"b","u","i","l","d">>, root)

\* file.endswith(('.cpp', '.h', '.js', '.ts'))
HasSourceExt(file) ==
    \/ EndsWith(file, <<".","c","p","p">>)
    \/ EndsWith(file, <<".","h">>)
    \/ EndsWith(file, <<".","j","s">>)
    \/ EndsWith(file, <<".","t","s">>)

RECURSIVE LineViolationsFirstMatch(_, _, _, _)
\* variant: `break` after the first rule that matches the line
LineViolationsFirstMatch(filepath, i, line, j) ==
    IF j > Len(patterns) THEN <<>>
    ELSE IF ReSearch(patterns[j].pattern, line)
    THEN <<[file |-> filepath, line |-> i, type |-> patterns[j].vtype,
            content |-> Strip(line)]>>
    ELSE LineViolationsFirstMatch(filepath, i, line, j + 1)

RECURSIVE LineViolations(_, _, _, _)
\* find_violations: `for pattern, vtype in patterns`, from rule j on
LineViolations(filepath, i, line, j) ==
    IF j > Len(patterns) THEN <<>>
    ELSE (IF ReSearch(patterns[j].pattern, line)
          THEN <<[file |-> filepath, line |-> i, type |-> patterns[j].vtype,
                  content |-> Strip(line)]>>
          ELSE <<>>)
         \o LineViolations(filepath, i, line, j + 1)

RECURSIVE FileViolations(_, _, _)
\* find_violations: `for i, line in enumerate(lines)`, from line i on
FileViolations(filepath, lines, i) ==
    IF i > Len(lines) THEN <<>>
    ELSE LineViolations(filepath, i, lines[i], 1)
         \o FileViolations(filepath, lines, i + 1)

RECURSIVE ScanFilesSkippingUnreadable(_, _, _)
\* variant: open() in a try, an unreadable file is skipped
ScanFilesSkippingUnreadable(d, root, files) ==
    IF files = <<>> THEN [raised |-> FALSE, found |-> <<>>, opened |-> <<>>]
    ELSE LET file == Head(files)
             filepath == PathJoin(root, file)
             rest == ScanFilesSkippingUnreadable(d, root, Tail(files))
         IN IF ~HasSourceExt(file) THEN rest
            ELSE IF ~d.data[filepath].readable
            THEN [rest EXCEPT !.opened = <<filepath>> \o @]
            ELSE [raised |-> rest.raised,
                  found |-> FileViolations(filepath,
                                           d.data[filepath].lines, 1)
                            \o rest.found,
                  opened |-> <<filepath>> \o rest.opened]

RECURSIVE ScanFiles(_, _, _)
\* find_violations: `for file in files`; open() of an unreadable file raises
ScanFiles(d, root, files) ==
    IF files = <<>> THEN [raised |-> FALSE, found |-> <<>>, opened |-> <<>>]
    ELSE LET file == Head(files)
             filepath == PathJoin(root, file)
         IN IF ~HasSourceExt(file) THEN ScanFiles(d, root, Tail(files))
            ELSE IF ~d.data[filepath].readable
            THEN [raised |-> TRUE, found |-> <<>>, opened |-> <<filepath>>]
            ELSE LET rest == ScanFiles(d, root, Tail(files))
                 IN [raised |-> rest.raised,
                     found |-> FileViolations(filepath,
                                              d.data[filepath].lines, 1)
                               \o rest.found,
                     opened |-> <<filepath>> \o rest.opened]

(***************************************************************************)
(* Context extraction                                                      *)
(***************************************************************************)

UnknownFunction == <<"Unknown function">>

RECURSIVE SearchBackwards(_, _, _)
\* extract_function_name: the for loop at 0-based index i, exclusive stop
SearchBackwards(lines, i, stop) ==
    IF i <= stop THEN UnknownFunction
    ELSE IF IsDeclaration(lines[i + 1]) THEN Strip(lines[i + 1])
    ELSE SearchBackwards(lines, i - 1, stop)

\* range(line_num - 1, max(0, line_num - 50), -1)
ExtractFunctionName(lines, line_num) ==
    SearchBackwards(lines, line_num - 1, Max(0, line_num - 50))

AnalyzeCodeContext(filepath, line_num) ==
    LET lines == disk.data[filepath].lines
        start == Max(0, line_num - 20)
        end   == Min(Len(lines), line_num + 20)
    IN [file |-> filepath,
        line |-> line_num,
        context |-> Join(SubSeq(lines, start + 1, end)),
        function |-> ExtractFunctionName(lines, line_num),
        violation_line |-> Strip(lines[line_num])]

(***************************************************************************)
(* main()                                                                  *)
(***************************************************************************)

max_fixes == 5

\* variant: the loop runs over every violation
FirstFewUncapped(vs) == vs

\* violations[:max_fixes]
FirstFew(vs) == SubSeq(vs, 1, Min(max_fixes, Len(vs)))

ReportFile == "ai_fix_report.json"
PrFile == "pr_description.md"

\* variant: the fixer is built without looking at the key
GetApiKeyUnchecked ==
    /\ pc = "start"
    /\ pc' = "scan"
    /\ self_violations' = <<>>
    /\ self_fixes' = <<>>
    /\ UNCHANGED <<env, disk, exitCode, walkQueue, scanViolations, openLog,
                   violations, idx, context, fix, aiCalls, outcomes, outputs,
                   writeLog>>

\* api_key = os.getenv(...); if not api_key: sys.exit(1); AICodeFixer(api_key)
GetApiKey ==
    /\ pc = "start"
    /\ IF env = None \/ env = ""
       THEN /\ pc' = "exited"
            /\ exitCode' = 1
            /\ UNCHANGED <<self_violations, self_fixes>>
       ELSE /\ pc' = "scan"
            /\ self_violations' = <<>>
            /\ self_fixes' = <<>>
            /\ UNCHANGED exitCode
    /\ UNCHANGED <<env, disk, walkQueue, scanViolations, openLog, violations,
                   idx, context, fix, aiCalls, outcomes, outputs, writeLog>>

\* fixer.find_violations(): violations = [], os.walk('.')
FindViolationsBegin ==
    /\ pc = "scan"
    /\ scanViolations' = <<>>
    /\ walkQueue' = OsWalk(disk, Dot)
    /\ pc' = "walk"
    /\ UNCHANGED <<env, disk, exitCode, openLog, violations, self_violations,
                   self_fixes, idx, context, fix, aiCalls, outcomes, outputs,
                   writeLog>>

\* one iteration of `for root, dirs, files in os.walk(directory)`; an
\* exception of open() is caught nowhere and ends the process with status 1
WalkDir ==
    /\ pc = "walk"
    /\ walkQueue # <<>>
    /\ LET e == Head(walkQueue)
           r == IF IsSkipped(e.root)
                THEN [raised |-> FALSE, found |-> <<>>, opened |-> <<>>]
                ELSE ScanFiles(disk, e.root, e.files)
       IN /\ openLog' = openLog \o r.opened
          /\ scanViolations' = scanViolations \o r.found
          /\ walkQueue' = Tail(walkQueue)
          /\ IF r.raised
             THEN pc' = "crashed" /\ exitCode' = 1
             ELSE pc' = "walk" /\ UNCHANGED exitCode
    /\ UNCHANGED <<env, disk, violations, self_violations, self_fixes, idx,
                   context, fix, aiCalls, outcomes, outputs, writeLog>>

\* `return violations`, assigned to main's local; the for loop starts
FindViolationsReturn ==
    /\ pc = "walk"
    /\ walkQueue = <<>>
    /\ violations' = scanViolations
    /\ idx' = 1
    /\ pc' = "loop"
    /\ UNCHANGED <<env, disk, exitCode, walkQueue, scanViolations, openLog,
                   self_violations, self_fixes, context, fix, aiCalls,
                   outcomes, outputs, writeLog>>

\* next iteration over violations[:max_fixes]: fixer.analyze_code_context
\* (outside the try: an unreadable file ends the process)
AnalyzeContext ==
    /\ pc = "loop"
    /\ idx <= Len(FirstFew(violations))
    /\ LET violation == FirstFew(violations)[idx]
       IN IF disk.data[violation.file].readable
          THEN /\ context' = AnalyzeCodeContext(violation.file, violation.line)
               /\ pc' = "generate"
               /\ UNCHANGED exitCode
          ELSE /\ pc' = "crashed"
               /\ exitCode' = 1
               /\ UNCHANGED context
    /\ UNCHANGED <<env, disk, walkQueue, scanViolations, openLog, violations,
                   self_violations, self_fixes, idx, fix, aiCalls, outcomes,
                   outputs, writeLog>>

\* the generated text is opaque
GeneratedTexts == {"generated implementation"}

\* fixer.generate_fix_with_ai(context) returns response.content[0].text
GenerateFixWithAI ==
    /\ pc = "generate"
    /\ aiCalls' = Append(aiCalls, context)
    /\ outcomes' = Append(outcomes, TRUE)
    /\ \E text \in GeneratedTexts : fix' = text
    /\ pc' = "apply"
    /\ UNCHANGED <<env, disk, exitCode, walkQueue, scanViolations, openLog,
                   violations, self_violations, self_fixes, idx, context,
                   outputs, writeLog>>

\* variant: the try encloses the loop, a failure ends it
GenerateFixRaisesEndsLoop ==
    /\ pc = "generate"
    /\ aiCalls' = Append(aiCalls, context)
    /\ outcomes' = Append(outcomes, FALSE)
    /\ idx' = Len(FirstFew(violations)) + 1
    /\ pc' = "loop"
    /\ UNCHANGED <<env, disk, exitCode, walkQueue, scanViolations, openLog,
                   violations, self_violations, self_fixes, context, fix,
                   outputs, writeLog>>

\* client.messages.create raises; `except Exception as e` prints, the loop
\* goes on
GenerateFixRaises ==
    /\ pc = "generate"
    /\ aiCalls' = Append(aiCalls, context)
    /\ outcomes' = Append(outcomes, FALSE)
    /\ idx' = idx + 1
    /\ pc' = "loop"
    /\ UNCHANGED <<env, disk, exitCode, walkQueue, scanViolations, openLog,
                   violations, self_violations, self_fixes, context, fix,
                   outputs, writeLog>>

\* variant: the fix is also written into the file
ApplyFixRewritesFile ==
    /\ pc = "apply"
    /\ LET violation == FirstFew(violations)[idx]
           content == Join(disk.data[violation.file].lines)
       IN /\ self_fixes' = Append(self_fixes,
                 [file |-> violation.file,
                  line |-> violation.line,
                  original |-> SplitNL(content, <<>>)[violation.line],
                  fixed |-> fix])
          /\ disk' = [disk EXCEPT
                 !.data[violation.file].lines[violation.line] = <<fix, "\n">>]
    /\ idx' = idx + 1
    /\ pc' = "loop"
    /\ UNCHANGED <<env, exitCode, walkQueue, scanViolations, openLog,
                   violations, self_violations, context, fix, aiCalls,
                   outcomes, outputs, writeLog>>

\* fixer.apply_fix(violation['file'], violation['line'], fix)
ApplyFix ==
    /\ pc = "apply"
    /\ LET violation == FirstFew(violations)[idx]
           content == Join(disk.data[violation.file].lines)
       IN self_fixes' = Append(self_fixes,
              [file |-> violation.file,
               line |-> violation.line,
               original |-> SplitNL(content, <<>>)[violation.line],
               fixed |-> fix])
    /\ idx' = idx + 1
    /\ pc' = "loop"
    /\ UNCHANGED <<env, disk, exitCode, walkQueue, scanViolations, openLog,
                   violations, self_violations, context, fix, aiCalls,
                   outcomes, outputs, writeLog>>

\* report = {...}; json.dump(report, open('ai_fix_report.json', 'w'))
WriteReport ==
    /\ pc = "loop"
    /\ idx > Len(FirstFew(violations))
    /\ outputs' = [outputs EXCEPT ![ReportFile] =
           <<[violations_found |-> Len(violations),
              fixes_applied |-> Len(self_fixes),
              violations |-> violations,
              fixes |-> self_fixes]>>]
    /\ writeLog' = Append(writeLog, ReportFile)
    /\ pc' = "describe"
    /\ UNCHANGED <<env, disk, exitCode, walkQueue, scanViolations, openLog,
                   violations, self_violations, self_fixes, idx, context, fix,
                   aiCalls, outcomes>>

RECURSIVE FixesByFile(_, _)
\* generate_pr_description: fixes_by_file, a dict in insertion order
FixesByFile(fixes, acc) ==
    IF fixes = <<>> THEN acc
    ELSE LET f == Head(fixes)
             at == {i \in 1..Len(acc) : acc[i].file = f.file}
         IN IF at = {}
            THEN FixesByFile(Tail(fixes),
                             Append(acc, [file |-> f.file, lines |-> <<f.line>>]))
            ELSE FixesByFile(Tail(fixes),
                   [i \in 1..Len(acc) |->
                      IF i \in at
                      THEN [acc[i] EXCEPT !.lines = Append(@, f.line)]
                      ELSE acc[i]])

\* AICodeFixer.generate_pr_description
GeneratePrDescription ==
    [violations_found |-> Len(self_violations),
     fixes_applied |-> Len(self_fixes),
     files_modified |->
         Cardinality({self_fixes[i].file : i \in 1..Len(self_fixes)}),
     changes |-> FixesByFile(self_fixes, <<>>)]

\* pr_description = fixer.generate_pr_description(); written; main returns
WritePrDescription ==
    /\ pc = "describe"
    /\ outputs' = [outputs EXCEPT ![PrFile] = <<GeneratePrDescription>>]
    /\ writeLog' = Append(writeLog, PrFile)
    /\ pc' = "done"
    /\ exitCode' = 0
    /\ UNCHANGED <<env, disk, walkQueue, scanViolations, openLog, violations,
                   self_violations, self_fixes, idx, context, fix, aiCalls,
                   outcomes>>

Next ==
    \/ GetApiKey
    \/ FindViolationsBegin
    \/ WalkDir
    \/ FindViolationsReturn
    \/ AnalyzeContext
    \/ GenerateFixWithAI
    \/ GenerateFixRaises
    \/ ApplyFix
    \/ WriteReport
    \/ WritePrDescription

(***************************************************************************)
(* Trees the runs start from                                               *)
(***************************************************************************)

MaxDepth == 2        \* nesting of directories below '.'
MaxFileLines == 2    \* lines of the file whose content varies
MaxLines == 52       \* lines of the file given to analyze_code_context

LTodo == <<"//", " ", "TODO", ":", " ", "fix", " ", "this", "\n">>
LPlaceholder ==
    <<"return", " ", "0.5f", ";", " ", "//", " ", "placeholder", "\n">>
LReturnOnly == <<"return", " ", "0.5f", ";", "\n">>
LMulti == <<"//", " ", "FIXME", ":", " ", "simplified", " ",
            "Math", ".", "random", "(", ")", "\n">>
LThrow == <<"throw", " ", "new", " ", "Error", "(", "\"", "not", " ",
            "implemented", "\"", ")", ";", "\n">>
LNeutral == <<"\t", "return", " ", "\"", "Neutral", "\"", ";", "\n">>
LPlain == <<"x", " ", "=", " ", "y", ";", "\n">>
LFunction == <<"function", " ", "analyze", "(", ")", " ", "{", "\n">>
LAsync == <<" ", "async", " ", "function", " ", "load", " ", "(", ")", "\n">>
LMethod == <<"\t", "float", " ", "Analyzer", "::", "energy", "(", ")", "\n">>

SampleLines ==
    {LTodo, LPlaceholder, LReturnOnly, LMulti, LThrow, LNeutral, LFunction}

DirNames == { <<"s","r","c">>,
              <<"b","u","i","l","d">>,
              <<".","g","i","t","h","u","b">>,
              <<"n","o","d","e","_","m","o","d","u","l","e","s">> }

ACpp == <<"a",".","c","p","p">>
BH == <<"b",".","h">>

FileNames == { ACpp, BH, <<"a",".","j","s">>, <<"a",".","t","s">>,
               <<"a",".","t","x","t">>, <<"b","u","i","l","d",".","j","s">> }

RECURSIVE ChainDir(_, _)
\* the directory at level j of the chain ./names[1]/names[2]/...
ChainDir(names, j) ==
    IF j = 0 THEN Dot ELSE PathJoin(ChainDir(names, j - 1), names[j])

\* a chain of nested directories, each holding one file `// TODO: fix this`;
\* the file at level `unreadable` cannot be opened
ChainDisk(names, fname, unreadable) ==
    LET k == Len(names)
    IN [tree |-> [p \in {ChainDir(names, j) : j \in 0..k} |->
                    LET j == CHOOSE j \in 0..k : ChainDir(names, j) = p
                    IN [dirs |-> IF j < k THEN <<names[j + 1]>> ELSE <<>>,
                        files |-> <<fname>>]],
        data |-> [p \in {PathJoin(ChainDir(names, j), fname) : j \in 0..k} |->
                    LET j == CHOOSE j \in 0..k :
                                 PathJoin(ChainDir(names, j), fname) = p
                    IN [readable |-> j # unreadable, lines |-> <<LTodo>>]]]

ChainDisks ==
    { ChainDisk(names, fname, u) :
        names \in UNION { [1..k -> DirNames] : k \in 0..MaxDepth },
        fname \in FileNames,
        u \in -1..MaxDepth }

HeavyLines == <<LFunction, LMulti, LMulti>>

\* '.' holds a.cpp with the given lines and, before or after it in the
\* listing, b.h with six violations
FlatDisk(lines, placement) ==
    [tree |-> [p \in {Dot} |->
                 [dirs |-> <<>>,
                  files |-> CASE placement = "none" -> <<ACpp>>
                              [] placement = "before" -> <<BH, ACpp>>
                              [] placement = "after" -> <<ACpp, BH>>]],
     data |-> [p \in {PathJoin(Dot, ACpp), PathJoin(Dot, BH)} |->
                 IF p = PathJoin(Dot, ACpp)
                 THEN [readable |-> TRUE, lines |-> lines]
                 ELSE [readable |-> TRUE, lines |-> HeavyLines]]]

FlatDisks ==
    { FlatDisk(lines, placement) :
        lines \in UNION { [1..n -> SampleLines] : n \in 0..MaxFileLines },
        placement \in {"none", "before", "after"} }

NoContext ==
    [file |-> <<>>, line |-> 0, context |-> <<>>, function |-> <<>>,
     violation_line |-> <<>>]

\* the state at the entry of main(), on the given tree
Start(d, key) ==
    /\ env = key
    /\ disk = d
    /\ pc = "start"
    /\ exitCode = -1
    /\ walkQueue = <<>>
    /\ scanViolations = <<>>
    /\ openLog = <<>>
    /\ violations = <<>>
    /\ self_violations = <<>>
    /\ self_fixes = <<>>
    /\ idx = 0
    /\ context = NoContext
    /\ fix = ""
    /\ aiCalls = <<>>
    /\ outcomes = <<>>
    /\ outputs = [f \in {ReportFile, PrFile} |-> <<>>]
    /\ writeLog = <<>>

Init ==
    \E d \in ChainDisks \cup FlatDisks, key \in {None, "", "sk-ant-key"} :
        Start(d, key)

Spec == Init /\ [][Next]_vars

(***************************************************************************)
(* analyze_code_context on its own, on files of up to MaxLines lines       *)
(***************************************************************************)

\* the declaration put at line d
DeclAt(d) == <<LFunction, LAsync, LMethod>>[(d % 3) + 1]

\* n lines `x = y;`, with declarations at the lines of decls
LongLines(n, decls) ==
    [i \in 1..n |-> IF i \in decls THEN DeclAt(i) ELSE LPlain]

LongDisk(lines) ==
    [tree |-> [p \in {Dot} |-> [dirs |-> <<>>, files |-> <<ACpp>>]],
     data |-> [p \in {PathJoin(Dot, ACpp)} |->
                 [readable |-> TRUE, lines |-> lines]]]

LongDisks ==
    { LongDisk(LongLines(n, decls)) :
        n \in 1..MaxLines,
        decls \in {{}} \cup { {d} : d \in 1..MaxLines }
                       \cup { {1, d} : d \in 2..MaxLines } }

InitCtx ==
    \E d \in LongDisks :
        Start(d, "sk-ant-key")

\* fixer.analyze_code_context('./a.cpp', line_num), for any line of the file
AnalyzeCodeContextCall ==
    /\ pc = "start"
    /\ \E line_num \in 1..Len(disk.data[PathJoin(Dot, ACpp)].lines) :
           context' = AnalyzeCodeContext(PathJoin(Dot, ACpp), line_num)
    /\ pc' = "returned"
    /\ UNCHANGED <<env, disk, exitCode, walkQueue, scanViolations, openLog,
                   violations, self_violations, self_fixes, idx, fix, aiCalls,
                   outcomes, outputs, writeLog>>

NextCtx == AnalyzeCodeContextCall

SpecCtx == InitCtx /\ [][NextCtx]_vars

(***************************************************************************)
(* Vocabulary of the properties                                            *)
(***************************************************************************)

Terminated == pc \in {"exited", "crashed", "done"}

\* find_violations has returned to main
ScanReturned == pc \in {"loop", "generate", "apply", "describe", "done"}

\* find_violations has just returned: the loop of main has not started
JustReturned == pc = "loop" /\ idx = 1 /\ aiCalls = <<>>

CredentialPresent == env # None /\ env # ""

Markers == { <<"n","o","d","e","_","m","o","d","u","l","e","s">>,
             <<".","g","i","t">>,
             <<"b","u","i","l","d">> }

SourceExtensions == { <<".","c","p","p">>, <<".","h">>, <<".","j","s">>,
                      <<".","t","s">> }

ContainsMarker(path) == \E m \in Markers : IsSubstring(m, path)

\* directory a is dir or an ancestor of dir
IsAncestorOrSelf(a, dir) ==
    \/ a = dir
    \/ /\ Len(a) < Len(dir)
       /\ SubSeq(dir, 1, Len(a)) = a
       /\ dir[Len(a) + 1] = "/"

InExcludedSubtree(dir) ==
    \E a \in DOMAIN disk.tree : IsAncestorOrSelf(a, dir) /\ ContainsMarker(a)

\* every file of the tree, with the directory that lists it
Entries ==
    UNION { { [dir |-> dir, name |-> disk.tree[dir].files[i],
               path |-> PathJoin(dir, disk.tree[dir].files[i])] :
              i \in 1..Len(disk.tree[dir].files) } :
            dir \in DOMAIN disk.tree }

Qualifies(e) ==
    /\ \E x \in SourceExtensions : EndsWith(e.name, x)
    /\ ~InExcludedSubtree(e.dir)

QualifyingPaths == { e.path : e \in { x \in Entries : Qualifies(x) } }

AllQualifyingReadable == \A p \in QualifyingPaths : disk.data[p].readable

RECURSIVE ListedFiles(_)
\* the files in the order os.walk lists them
ListedFiles(walk) ==
    IF walk = <<>> THEN <<>>
    ELSE [i \in 1..Len(Head(walk).files) |->
            PathJoin(Head(walk).root, Head(walk).files[i])]
         \o ListedFiles(Tail(walk))

RuleIndex(vtype) == CHOOSE r \in 1..Len(patterns) : patterns[r].vtype = vtype

\* the kinds of the violations reported for line i of the file, in order
KindsAt(vs, path, i) ==
    LET at == SelectSeq(vs, LAMBDA v : v.file = path /\ v.line = i)
    IN [k \in 1..Len(at) |-> at[k].type]

RECURSIVE SucceededCalls(_, _)
\* the positions i.. of the service calls that returned, ascending
SucceededCalls(outs, i) ==
    IF i > Len(outs) THEN <<>>
    ELSE (IF outs[i] THEN <<i>> ELSE <<>>) \o SucceededCalls(outs, i + 1)

Report == outputs[ReportFile][1]
PrDescription == outputs[PrFile][1]

(***************************************************************************)
(* Properties                                                              *)
(***************************************************************************)

\* C1: in a run that completes with n violations found, the service is
\* called exactly min(5, n) times, on the first min(5, n) violations in
\* order; the report has violations_found = n and n entries in 'violations',
\* and fixes_applied = the length of 'fixes', at most min(5, n).  No run
\* ever makes more than min(5, n) calls.
C1_CapOnFixAttempts ==
    /\ Len(aiCalls) <= Min(5, Len(violations))
    /\ pc = "done" =>
         /\ Len(aiCalls) = Min(5, Len(violations))
         /\ \A i \in 1..Len(aiCalls) :
               /\ aiCalls[i].file = violations[i].file
               /\ aiCalls[i].line = violations[i].line
         /\ violations = scanViolations
         /\ Report.violations_found = Len(violations)
         /\ Len(Report.violations) = Len(violations)
         /\ Report.fixes_applied = Len(Report.fixes)
         /\ Report.fixes = self_fixes
         /\ Len(Report.fixes) <= Min(5, Len(violations))

C1_Witness ==
    /\ pc = "done"
    /\ Len(violations) > 5
    /\ Len(aiCalls) = 5
    /\ Report.violations_found > 5

\* C2: a failed service call skips that violation only: at the end of the
\* run every one of the first min(5, n) violations was attempted, both
\* documents are written, and the fix list holds one Fix per violation whose
\* call succeeded, in processing order, and nothing else.
C2_FailureSkipsOneViolation ==
    /\ Len(self_fixes) <= Len(outcomes)
    /\ pc = "done" =>
         LET ok == SucceededCalls(outcomes, 1)
         IN /\ Len(outcomes) = Min(5, Len(violations))
            /\ writeLog = <<ReportFile, PrFile>>
            /\ Len(outputs[ReportFile]) = 1 /\ Len(outputs[PrFile]) = 1
            /\ Len(self_fixes) = Len(ok)
            /\ \A j \in 1..Len(ok) :
                  /\ self_fixes[j].file = violations[ok[j]].file
                  /\ self_fixes[j].line = violations[ok[j]].line
                  /\ self_fixes[j].fixed \in GeneratedTexts

C2_Witness ==
    /\ pc = "done"
    /\ \E i, j \in 1..Len(outcomes) : i < j /\ ~outcomes[i] /\ outcomes[j]
    /\ \E i, j \in 1..Len(outcomes) : i < j /\ outcomes[i] /\ ~outcomes[j]

\* exit code 1, before any work: nothing scanned, called or written
AbortedAtStartup ==
    /\ pc \in {"start", "exited"}
    /\ pc = "exited" => exitCode = 1
    /\ walkQueue = <<>> /\ openLog = <<>> /\ scanViolations = <<>>
    /\ aiCalls = <<>>
    /\ writeLog = <<>>
    /\ outputs[ReportFile] = <<>> /\ outputs[PrFile] = <<>>

\* C3, as stated: without the credential main() exits with code 1 before any
\* work; in every run where the credential is present the process ends with
\* exit code 0.
C3_Original ==
    /\ ~CredentialPresent => AbortedAtStartup
    /\ CredentialPresent /\ Terminated => exitCode = 0

\* C3, amended: without the credential main() exits with code 1 before any
\* work; with the credential, the process ends with exit code 0 when every
\* qualifying file can be read, and with exit code 1 (uncaught exception of
\* the scan) when one cannot.
C3_ExitCodes ==
    /\ ~CredentialPresent => AbortedAtStartup
    /\ CredentialPresent /\ Terminated =>
         /\ AllQualifyingReadable => pc = "done" /\ exitCode = 0
         /\ ~AllQualifyingReadable => pc = "crashed" /\ exitCode = 1

C3_Witness ==
    /\ env = None
    /\ pc = "exited"
    /\ exitCode = 1
    /\ QualifyingPaths # {}

\* C4, as stated: the context window of target line L in a file of N lines
\* is the lines max(1, L-20) .. min(N, L+20), in order: the target line, up
\* to 20 lines before it and up to 20 lines after it.
C4_Original ==
    pc = "returned" =>
        LET lines == disk.data[context.file].lines
            L == context.line
        IN context.context =
               Join(SubSeq(lines, Max(1, L - 20), Min(Len(lines), L + 20)))

\* C5, as stated: the function label is the stripped text of the nearest
\* declaration among the lines L down to max(1, L-49), the first line of the
\* file included; it is "Unknown function" iff none of these lines is a
\* declaration.
C5_Original ==
    pc = "returned" =>
        LET lines == disk.data[context.file].lines
            L == context.line
            hits == {i \in Max(1, L - 49)..L : IsDeclaration(lines[i])}
        IN /\ context.function = UnknownFunction <=> hits = {}
           /\ hits # {} =>
                context.function =
                    Strip(lines[CHOOSE i \in hits : \A h \in hits : h <= i])

\* C6: the scan returns one Violation per (qualifying file, line, rule) whose
\* pattern matches the line and no other Violation, with the 1-based line
\* number and the rule's kind; a line matching k rules yields k Violations.
\* The result is ordered by traversal order of the files, then line number,
\* then rule order.  `// TODO: fix this` yields exactly one Violation, of
\* kind todo_comment; `return 0.5f; // placeholder` yields one of kind
\* hardcoded_placeholder, `return 0.5f;` yields none.  (The list is examined
\* when find_violations returns it; main never changes it afterwards.)
C6_OneViolationPerMatch ==
    /\ ScanReturned => violations = scanViolations
    /\ JustReturned =>
        LET qualifying == QualifyingPaths
            listed == ListedFiles(OsWalk(disk, Dot))
            rank == [p \in qualifying |->
                       CHOOSE i \in 1..Len(listed) : listed[i] = p]
        IN
        /\ \A p \in qualifying :
             \A i \in 1..Len(disk.data[p].lines) :
               LET line == disk.data[p].lines[i]
               IN /\ \A r \in 1..Len(patterns) :
                        Cardinality({k \in 1..Len(violations) :
                                       /\ violations[k].file = p
                                       /\ violations[k].line = i
                                       /\ violations[k].type = patterns[r].vtype})
                        = IF ReSearch(patterns[r].pattern, line) THEN 1 ELSE 0
                  /\ line = LTodo =>
                        KindsAt(violations, p, i) = <<"todo_comment">>
                  /\ line = LPlaceholder =>
                        KindsAt(violations, p, i) = <<"hardcoded_placeholder">>
                  /\ line = LReturnOnly => KindsAt(violations, p, i) = <<>>
        /\ \A k \in 1..Len(violations) :
             LET v == violations[k]
             IN /\ v.file \in qualifying
                /\ v.line \in 1..Len(disk.data[v.file].lines)
                /\ \E r \in 1..Len(patterns) : patterns[r].vtype = v.type
                /\ v.content = Strip(disk.data[v.file].lines[v.line])
        /\ \A k \in 1..(Len(violations) - 1) :
             LET v == violations[k]
                 w == violations[k + 1]
             IN \/ rank[v.file] < rank[w.file]
                \/ v.file = w.file /\ v.line < w.line
                \/ v.file = w.file /\ v.line = w.line
                   /\ RuleIndex(v.type) < RuleIndex(w.type)

C6_Witness ==
    /\ JustReturned
    /\ \E k \in 1..(Len(violations) - 1) :
          /\ violations[k].file = violations[k + 1].file
          /\ violations[k].line = violations[k + 1].line
    /\ \E k \in 1..(Len(violations) - 1) :
          violations[k].file # violations[k + 1].file
    /\ \E k \in 1..Len(violations) :
          disk.data[violations[k].file].lines[violations[k].line] = LTodo

\* C7: only files with one of the four extensions, in directories whose path
\* contains no exclusion marker, are opened and contribute Violations;
\* nothing below an excluded directory is, at any depth; every such file
\* outside the excluded subtrees is scanned; a tree without qualifying files
\* yields the empty sequence.
C7_ScanScope ==
    LET qualifying == QualifyingPaths
        allowed == { e \in Entries :
                       /\ \E x \in SourceExtensions : EndsWith(e.name, x)
                       /\ ~ContainsMarker(e.dir)
                       /\ ~InExcludedSubtree(e.dir) }
    IN /\ \A i \in 1..Len(openLog) : openLog[i] \in qualifying
       /\ \A k \in 1..Len(scanViolations) :
             \E e \in allowed : e.path = scanViolations[k].file
       /\ ScanReturned =>
             /\ violations = scanViolations
             /\ {openLog[i] : i \in 1..Len(openLog)} = qualifying
             /\ qualifying = {} => violations = <<>>

C7_Witness ==
    /\ ScanReturned
    /\ violations # <<>>
    /\ \E e \in Entries :
          /\ \E x \in SourceExtensions : EndsWith(e.name, x)
          /\ InExcludedSubtree(e.dir)
          /\ \E a \in DOMAIN disk.tree :
                /\ a # e.dir
                /\ IsAncestorOrSelf(a, e.dir)
                /\ ContainsMarker(a)
                /\ ~ContainsMarker(SubSeq(e.dir, Len(a) + 1, Len(e.dir)))

\* C8: the run never changes the tree it scans; a step that changes the fix
\* list appends one record {file, line, original, fixed}; the only files
\* written are ai_fix_report.json and pr_description.md, once each, in this
\* order, after the loop.
C8_DryRun ==
    /\ [][/\ disk' = disk
          /\ self_fixes' # self_fixes =>
               /\ Len(self_fixes') = Len(self_fixes) + 1
               /\ SubSeq(self_fixes', 1, Len(self_fixes)) = self_fixes
               /\ DOMAIN self_fixes'[Len(self_fixes')]
                    = {"file", "line", "original", "fixed"}
               /\ writeLog' = writeLog
          /\ writeLog' # writeLog =>
               /\ pc \in {"loop", "describe"}
               /\ idx > Len(FirstFew(violations))
               /\ self_fixes' = self_fixes]_vars
    /\ [](\/ writeLog = <<>>
          \/ writeLog = <<ReportFile>> /\ pc = "describe"
          \/ writeLog = <<ReportFile, PrFile>> /\ pc = "done")
    /\ [](pc = "done" => writeLog = <<ReportFile, PrFile>>)

C8_Witness ==
    /\ pc = "done"
    /\ Len(self_fixes) >= 2
    /\ writeLog = <<ReportFile, PrFile>>

\* C9: when a qualifying file cannot be read, the run aborts in the scan:
\* find_violations returns nothing to main, the service is never called and
\* neither document is written; the process ends with the uncaught exception.
C9_UnreadableFileAborts ==
    CredentialPresent /\ ~AllQualifyingReadable =>
        /\ pc \in {"start", "scan", "walk", "crashed"}
        /\ ~(pc = "walk" /\ walkQueue = <<>>)
        /\ violations = <<>>
        /\ aiCalls = <<>>
        /\ writeLog = <<>>
        /\ outputs[ReportFile] = <<>> /\ outputs[PrFile] = <<>>
        /\ pc = "crashed" => exitCode = 1 /\ ~disk.data[openLog[Len(openLog)]].readable

C9_Witness ==
    /\ pc = "crashed"
    /\ scanViolations # <<>>
    /\ walkQueue # <<>>

\* C10, as stated: the two documents agree on their counts: 'Violations
\* Found' of pr_description.md equals violations_found of ai_fix_report.json
\* and 'Fixes Applied' equals fixes_applied.
C10_Original ==
    pc = "done" =>
        /\ PrDescription.violations_found = Report.violations_found
        /\ PrDescription.fixes_applied = Report.fixes_applied

====
